---- MODULE Spec2Model ----
(***************************************************************************)
(* Streaming indicators of yata: the Envelopes and KlingerVolumeOscillator *)
(* configurations (validate / set / init / size) and their instances       *)
(* (next), together with the moving averages and the crossing detector     *)
(* they are composed of.                                                   *)
(*                                                                         *)
(* ValueType (a float in the source) is modelled by exact rationals        *)
(* <<numerator, denominator>> in lowest terms with a positive denominator. *)
(***************************************************************************)
EXTENDS Integers, Sequences, FiniteSets, TLC

VARIABLES
    ind,        \* which indicator the caller configures: its NAME constant
    cfg,        \* the caller's configuration struct
    inst,       \* the running instance, NoInstance before a successful init
    lastOp,     \* the last operation called, with its arguments
    ret,        \* what the last operation returned: a Result or an IndicatorResult
    hist,       \* the candles supplied so far: the init candle, then one per next
    fed,        \* the values the last next() passed to its moving averages
    det,        \* a stand-alone crossing detector (methods::Cross)
    series,     \* the pairs (a, b) the stand-alone detector has observed
    phase,      \* the segment of the series: "start", "rising", "flat", "falling"
    sigs        \* the signals the stand-alone detector has returned, in order

vars == <<ind, cfg, inst, lastOp, ret, hist, fed, det, series, phase, sigs>>

indicatorVars == <<ind, cfg, inst, lastOp, ret, hist, fed>>
detectorVars == <<det, series, phase, sigs>>

----------------------------------------------------------------------------
(* Bounds of the model *)

\* periods of the moving averages range over 1..MaxPeriod
MaxPeriod == 3
\* at most MaxSteps calls of next on an instance
MaxSteps == 3
\* the series of the stand-alone detector takes its values in 0..MaxLevel
MaxLevel == 4
\* at most MaxSeries pairs are fed to the stand-alone detector
MaxSeries == 5

----------------------------------------------------------------------------
(* ValueType: exact rational arithmetic *)

Abs(n) == IF n < 0 THEN -n ELSE n

RECURSIVE Gcd(_, _)
Gcd(a, b) == IF b = 0 THEN a ELSE Gcd(b, a % b)

Norm(n, d) ==
    LET g == Gcd(Abs(n), Abs(d))
        s == IF d < 0 THEN -1 ELSE 1
    IN  <<(s * n) \div g, (s * d) \div g>>

R(n) == <<n, 1>>

Lcm(a, b) == (a \div Gcd(a, b)) * b

RAdd(x, y) ==
    LET l == Lcm(x[2], y[2])
    IN  Norm(x[1] * (l \div x[2]) + y[1] * (l \div y[2]), l)

RNeg(x) == <<-x[1], x[2]>>

RSub(x, y) == RAdd(x, RNeg(y))

RMul(x, y) ==
    LET a == Norm(x[1], y[2])
        b == Norm(y[1], x[2])
    IN  Norm(a[1] * b[1], a[2] * b[2])

RLt(x, y) == RSub(x, y)[1] < 0

RGt(x, y) == RLt(y, x)

\* a bool cast to i8
AsI8(b) == IF b THEN 1 ELSE 0

----------------------------------------------------------------------------
(* core: candles, sources, actions *)

\* The candles the caller supplies: well-formed (low <= open, close <= high,
\* positive prices, volume >= 0). Candle1 and Candle3 have the same typical
\* price and different volumes; Candle4 has no volume.
Candle1 == [open |-> 100, high |-> 100, low |-> 100, close |-> 100, volume |-> 1]
Candle2 == [open |-> 100, high |-> 100, low |-> 80, close |-> 80, volume |-> 2]
Candle3 == [open |-> 80, high |-> 120, low |-> 80, close |-> 100, volume |-> 3]
Candle4 == [open |-> 100, high |-> 130, low |-> 100, close |-> 130, volume |-> 0]

Candles == {Candle1, Candle2, Candle3, Candle4}

\* The trait OHLCV sets no limit on the values and next() checks none: a candle
\* with negative prices is accepted like any other.
CandleNeg == [open |-> -10, high |-> -10, low |-> -10, close |-> -10, volume |-> 1]

SignedCandles == Candles \cup {CandleNeg}

Sources == {"Close", "Open"}

\* OHLCV::source
Source(candle, source) ==
    IF source = "Close" THEN R(candle.close) ELSE R(candle.open)

\* OHLCV::tp: the typical price (high + low + close) / 3
TP(candle) == Norm(candle.high + candle.low + candle.close, 3)

\* OHLCV::volume
Volume(candle) == R(candle.volume)

BUY_ALL == "BuyAll"
SELL_ALL == "SellAll"
ACTION_NONE == "None"

\* Action::from(i8)
ActionFromI8(v) ==
    IF v > 0 THEN BUY_ALL ELSE IF v < 0 THEN SELL_ALL ELSE ACTION_NONE

\* helpers::sign
Sign(d) == IF d[1] > 0 THEN R(1) ELSE IF d[1] < 0 THEN R(-1) ELSE R(0)

\* IndicatorResult::new(values, signals)
IndicatorResult(values, signals) == [values |-> values, signals |-> signals]

----------------------------------------------------------------------------
(* helpers::MA: the moving-average constructors and their running states *)

Families == {"SMA", "EMA"}

MAs == [kind : Families, period : 1..MaxPeriod]

\* MovingAverageConstructor::ma_period
MAPeriod(ma) == ma.period

\* MovingAverageConstructor::is_similar_to: same variant of the enum
IsSimilarTo(ma, other) == ma.kind = other.kind

\* MovingAverageConstructor::init: a window filled with the first value (SMA),
\* or the first value as the running output (EMA)
MAInit(ma, value) ==
    IF ma.period <= 1
    THEN [ok |-> FALSE, state |-> <<>>,
          error |-> [tag |-> "ParameterParse", name |-> "period",
                     value |-> ToString(ma.period)]]
    ELSE [ok |-> TRUE, error |-> <<>>,
          state |-> [kind |-> ma.kind, period |-> ma.period, value |-> value,
                     window |-> IF ma.kind = "SMA"
                                THEN [i \in 1..ma.period |-> value]
                                ELSE <<>>]]

\* Method::next of the running average: the new state and the new output
MANext(st, value) ==
    IF st.kind = "SMA"
    THEN LET past == Head(st.window)
             v == RAdd(st.value, RMul(RSub(value, past), Norm(1, st.period)))
         IN  [st EXCEPT !.window = Append(Tail(st.window), value), !.value = v]
    ELSE LET alpha == Norm(2, st.period + 1)
             v == RAdd(st.value, RMul(RSub(value, st.value), alpha))
         IN  [st EXCEPT !.value = v]

----------------------------------------------------------------------------
(* methods::Cross: the crossing detector *)

\* Cross::default(): no pair observed yet
CrossDefault == "uninitialized"

Relation(a, b) ==
    IF RLt(a, b) THEN "below" ELSE IF RGt(a, b) THEN "above" ELSE "equal"

\* CrossNext with the previous relation forgotten: a signal on every step on
\* which a is above or below b
CrossNextBySign(st, a, b) ==
    LET now == Relation(a, b)
    IN  [state |-> now,
         signal |-> IF st # CrossDefault /\ now = "above" THEN BUY_ALL
                    ELSE IF st # CrossDefault /\ now = "below" THEN SELL_ALL
                    ELSE ACTION_NONE]

\* Cross::next(&(a, b)): the new state and the signal
CrossNext(st, a, b) ==
    LET now == Relation(a, b)
    IN  [state |-> now,
         signal |-> IF st \in {"below", "equal"} /\ now = "above" THEN BUY_ALL
                    ELSE IF st \in {"above", "equal"} /\ now = "below" THEN SELL_ALL
                    ELSE ACTION_NONE]

----------------------------------------------------------------------------
(* FromStr of the field types: the raw values of set() *)

MAText(ma) ==
    (IF ma.kind = "SMA" THEN "sma-" ELSE "ema-") \o ToString(ma.period)

ValueTexts == {"0.1", "1.5", "0"}

SourceTexts == {"close", "open"}

RawValues == {MAText(ma) : ma \in MAs} \cup ValueTexts \cup SourceTexts \cup {"zzz"}

\* <M as FromStr>::from_str
ParseMA(s) ==
    IF \E ma \in MAs : ma.period > 1 /\ MAText(ma) = s
    THEN [ok |-> TRUE, value |-> CHOOSE ma \in MAs : MAText(ma) = s]
    ELSE [ok |-> FALSE, value |-> <<>>]

\* <ValueType as FromStr>::from_str
ParseValue(s) ==
    IF s = "0.1" THEN [ok |-> TRUE, value |-> Norm(1, 10)]
    ELSE IF s = "1.5" THEN [ok |-> TRUE, value |-> Norm(3, 2)]
    ELSE IF s = "0" THEN [ok |-> TRUE, value |-> R(0)]
    ELSE [ok |-> FALSE, value |-> <<>>]

\* <Source as FromStr>::from_str
ParseSource(s) ==
    IF s = "close" THEN [ok |-> TRUE, value |-> "Close"]
    ELSE IF s = "open" THEN [ok |-> TRUE, value |-> "Open"]
    ELSE [ok |-> FALSE, value |-> <<>>]

KValues == {ParseValue(s).value : s \in ValueTexts}

\* Result<_, Error>
Ok == [tag |-> "Ok"]
WrongConfig == [tag |-> "WrongConfig"]
ParameterParse(name, value) == [tag |-> "ParameterParse", name |-> name, value |-> value]
NotCalled == [tag |-> "NotCalled"]

NoInstance == [tag |-> "NoInstance"]

----------------------------------------------------------------------------
(* indicators::Envelopes *)

ENVELOPES == "Envelopes"

EnvelopesFields == {"ma", "k", "source", "source2"}

EnvelopesConfigs == [ma : MAs, k : KValues, source : Sources, source2 : Sources]

\* EnvelopesValidate with k = 0 accepted
EnvelopesValidateNonNegative(c) == ~RLt(c.k, R(0)) /\ MAPeriod(c.ma) > 1

\* Envelopes::validate
EnvelopesValidate(c) == RGt(c.k, R(0)) /\ MAPeriod(c.ma) > 1

\* EnvelopesInit without the check of validate()
EnvelopesInitNoGate(c, candle) ==
    LET src == Source(candle, c.source)
        ma == MAInit(c.ma, src)
    IN  IF ~ma.ok
        THEN [result |-> ma.error, inst |-> NoInstance]
        ELSE [result |-> Ok,
              inst |-> [cfg |-> c,
                        ma |-> ma.state,
                        k_high |-> RAdd(R(1), c.k),
                        k_low |-> RSub(R(1), c.k)]]

\* EnvelopesInit with the upper factor stored for both bounds
EnvelopesInitSameFactor(c, candle) ==
    IF ~EnvelopesValidate(c)
    THEN [result |-> WrongConfig, inst |-> NoInstance]
    ELSE LET src == Source(candle, c.source)
             ma == MAInit(c.ma, src)
         IN  IF ~ma.ok
             THEN [result |-> ma.error, inst |-> NoInstance]
             ELSE [result |-> Ok,
                   inst |-> [cfg |-> c,
                             ma |-> ma.state,
                             k_high |-> RAdd(R(1), c.k),
                             k_low |-> RAdd(R(1), c.k)]]

\* EnvelopesInit with the two factors exchanged
EnvelopesInitSwappedFactors(c, candle) ==
    IF ~EnvelopesValidate(c)
    THEN [result |-> WrongConfig, inst |-> NoInstance]
    ELSE LET src == Source(candle, c.source)
             ma == MAInit(c.ma, src)
         IN  IF ~ma.ok
             THEN [result |-> ma.error, inst |-> NoInstance]
             ELSE [result |-> Ok,
                   inst |-> [cfg |-> c,
                             ma |-> ma.state,
                             k_high |-> RSub(R(1), c.k),
                             k_low |-> RAdd(R(1), c.k)]]

\* Envelopes::init
EnvelopesInit(c, candle) ==
    IF ~EnvelopesValidate(c)
    THEN [result |-> WrongConfig, inst |-> NoInstance]
    ELSE LET src == Source(candle, c.source)
             ma == MAInit(c.ma, src)
         IN  IF ~ma.ok
             THEN [result |-> ma.error, inst |-> NoInstance]
             ELSE [result |-> Ok,
                   inst |-> [cfg |-> c,
                             ma |-> ma.state,
                             k_high |-> RAdd(R(1), c.k),
                             k_low |-> RSub(R(1), c.k)]]

\* EnvelopesSet with an unknown name accepted and ignored
EnvelopesSetIgnoreUnknown(c, name, value) ==
    IF name = "ma"
    THEN IF ~ParseMA(value).ok
         THEN [result |-> ParameterParse(name, value), cfg |-> c]
         ELSE [result |-> Ok, cfg |-> [c EXCEPT !.ma = ParseMA(value).value]]
    ELSE IF name = "k"
    THEN IF ~ParseValue(value).ok
         THEN [result |-> ParameterParse(name, value), cfg |-> c]
         ELSE [result |-> Ok, cfg |-> [c EXCEPT !.k = ParseValue(value).value]]
    ELSE IF name = "source"
    THEN IF ~ParseSource(value).ok
         THEN [result |-> ParameterParse(name, value), cfg |-> c]
         ELSE [result |-> Ok, cfg |-> [c EXCEPT !.source = ParseSource(value).value]]
    ELSE IF name = "source2"
    THEN IF ~ParseSource(value).ok
         THEN [result |-> ParameterParse(name, value), cfg |-> c]
         ELSE [result |-> Ok, cfg |-> [c EXCEPT !.source2 = ParseSource(value).value]]
    ELSE [result |-> Ok, cfg |-> c]

\* EnvelopesSet storing a parsed source2 in the field source
EnvelopesSetWrongField(c, name, value) ==
    IF name = "ma"
    THEN IF ~ParseMA(value).ok
         THEN [result |-> ParameterParse(name, value), cfg |-> c]
         ELSE [result |-> Ok, cfg |-> [c EXCEPT !.ma = ParseMA(value).value]]
    ELSE IF name = "k"
    THEN IF ~ParseValue(value).ok
         THEN [result |-> ParameterParse(name, value), cfg |-> c]
         ELSE [result |-> Ok, cfg |-> [c EXCEPT !.k = ParseValue(value).value]]
    ELSE IF name = "source"
    THEN IF ~ParseSource(value).ok
         THEN [result |-> ParameterParse(name, value), cfg |-> c]
         ELSE [result |-> Ok, cfg |-> [c EXCEPT !.source = ParseSource(value).value]]
    ELSE IF name = "source2"
    THEN IF ~ParseSource(value).ok
         THEN [result |-> ParameterParse(name, value), cfg |-> c]
         ELSE [result |-> Ok, cfg |-> [c EXCEPT !.source = ParseSource(value).value]]
    ELSE [result |-> ParameterParse(name, value), cfg |-> c]

\* Envelopes::set
EnvelopesSet(c, name, value) ==
    IF name = "ma"
    THEN IF ~ParseMA(value).ok
         THEN [result |-> ParameterParse(name, value), cfg |-> c]
         ELSE [result |-> Ok, cfg |-> [c EXCEPT !.ma = ParseMA(value).value]]
    ELSE IF name = "k"
    THEN IF ~ParseValue(value).ok
         THEN [result |-> ParameterParse(name, value), cfg |-> c]
         ELSE [result |-> Ok, cfg |-> [c EXCEPT !.k = ParseValue(value).value]]
    ELSE IF name = "source"
    THEN IF ~ParseSource(value).ok
         THEN [result |-> ParameterParse(name, value), cfg |-> c]
         ELSE [result |-> Ok, cfg |-> [c EXCEPT !.source = ParseSource(value).value]]
    ELSE IF name = "source2"
    THEN IF ~ParseSource(value).ok
         THEN [result |-> ParameterParse(name, value), cfg |-> c]
         ELSE [result |-> Ok, cfg |-> [c EXCEPT !.source2 = ParseSource(value).value]]
    ELSE [result |-> ParameterParse(name, value), cfg |-> c]

\* Envelopes::size
EnvelopesSize == <<3, 1>>

\* EnvelopesNext with the two comparisons exchanged
EnvelopesNextSwapped(i, candle) ==
    LET src == Source(candle, i.cfg.source)
        ma == MANext(i.ma, src)
        v == ma.value
        value1 == RMul(v, i.k_high)
        value2 == RMul(v, i.k_low)
        src2 == Source(candle, i.cfg.source2)
        signal == AsI8(RGt(src2, value1)) - AsI8(RLt(src2, value2))
    IN  [inst |-> [i EXCEPT !.ma = ma],
         res |-> IndicatorResult(<<value1, value2, src2>>, <<ActionFromI8(signal)>>),
         fed |-> <<src>>]

\* EnvelopesNext with the bounds taken from the average before it is advanced
EnvelopesNextStale(i, candle) ==
    LET src == Source(candle, i.cfg.source)
        ma == MANext(i.ma, src)
        v == i.ma.value
        value1 == RMul(v, i.k_high)
        value2 == RMul(v, i.k_low)
        src2 == Source(candle, i.cfg.source2)
        signal == AsI8(RLt(src2, value2)) - AsI8(RGt(src2, value1))
    IN  [inst |-> [i EXCEPT !.ma = ma],
         res |-> IndicatorResult(<<value1, value2, src2>>, <<ActionFromI8(signal)>>),
         fed |-> <<src>>]

\* EnvelopesNext with the signal emitted at half strength
EnvelopesNextHalf(i, candle) ==
    LET src == Source(candle, i.cfg.source)
        ma == MANext(i.ma, src)
        v == ma.value
        value1 == RMul(v, i.k_high)
        value2 == RMul(v, i.k_low)
        src2 == Source(candle, i.cfg.source2)
        signal == AsI8(RLt(src2, value2)) - AsI8(RGt(src2, value1))
    IN  [inst |-> [i EXCEPT !.ma = ma],
         res |-> IndicatorResult(<<value1, value2, src2>>,
                                 <<IF signal > 0 THEN "Buy(0.5)"
                                   ELSE IF signal < 0 THEN "Sell(0.5)"
                                   ELSE ACTION_NONE>>),
         fed |-> <<src>>]

\* EnvelopesInstance::next
EnvelopesNext(i, candle) ==
    LET src == Source(candle, i.cfg.source)
        ma == MANext(i.ma, src)
        v == ma.value
        value1 == RMul(v, i.k_high)
        value2 == RMul(v, i.k_low)
        src2 == Source(candle, i.cfg.source2)
        signal == AsI8(RLt(src2, value2)) - AsI8(RGt(src2, value1))
    IN  [inst |-> [i EXCEPT !.ma = ma],
         res |-> IndicatorResult(<<value1, value2, src2>>, <<ActionFromI8(signal)>>),
         fed |-> <<src>>]

----------------------------------------------------------------------------
(* indicators::KlingerVolumeOscillator *)

KVO == "KlingerVolumeOscillator"

KVOFields == {"ma1", "ma2", "signal"}

KVOConfigs == [ma1 : MAs, ma2 : MAs, signal : MAs]

\* KVOValidate without the comparison of the families
KVOValidateNoFamily(c) ==
    /\ MAPeriod(c.ma1) > 1
    /\ MAPeriod(c.signal) > 1
    /\ MAPeriod(c.ma1) < MAPeriod(c.ma2)

\* KVOValidate without the lower limit of the fast period
KVOValidateNoFast(c) ==
    /\ IsSimilarTo(c.ma1, c.ma2)
    /\ MAPeriod(c.signal) > 1
    /\ MAPeriod(c.ma1) < MAPeriod(c.ma2)

\* KlingerVolumeOscillator::validate
KVOValidate(c) ==
    /\ IsSimilarTo(c.ma1, c.ma2)
    /\ MAPeriod(c.ma1) > 1
    /\ MAPeriod(c.signal) > 1
    /\ MAPeriod(c.ma1) < MAPeriod(c.ma2)

\* KlingerVolumeOscillator::init
\* KVOInit with detectors that have already seen a pair of equal values
KVOInitEqualDetectors(c, candle) ==
    IF ~KVOValidate(c)
    THEN [result |-> WrongConfig, inst |-> NoInstance]
    ELSE LET ma1 == MAInit(c.ma1, R(0))
             ma2 == MAInit(c.ma2, R(0))
             ma3 == MAInit(c.signal, R(0))
         IN  IF ~ma1.ok THEN [result |-> ma1.error, inst |-> NoInstance]
             ELSE IF ~ma2.ok THEN [result |-> ma2.error, inst |-> NoInstance]
             ELSE IF ~ma3.ok THEN [result |-> ma3.error, inst |-> NoInstance]
             ELSE [result |-> Ok,
                   inst |-> [cfg |-> c,
                             ma1 |-> ma1.state,
                             ma2 |-> ma2.state,
                             ma3 |-> ma3.state,
                             cross1 |-> "equal",
                             cross2 |-> "equal",
                             last_tp |-> TP(candle)]]

KVOInit(c, candle) ==
    IF ~KVOValidate(c)
    THEN [result |-> WrongConfig, inst |-> NoInstance]
    ELSE LET ma1 == MAInit(c.ma1, R(0))
             ma2 == MAInit(c.ma2, R(0))
             ma3 == MAInit(c.signal, R(0))
         IN  IF ~ma1.ok THEN [result |-> ma1.error, inst |-> NoInstance]
             ELSE IF ~ma2.ok THEN [result |-> ma2.error, inst |-> NoInstance]
             ELSE IF ~ma3.ok THEN [result |-> ma3.error, inst |-> NoInstance]
             ELSE [result |-> Ok,
                   inst |-> [cfg |-> c,
                             ma1 |-> ma1.state,
                             ma2 |-> ma2.state,
                             ma3 |-> ma3.state,
                             cross1 |-> CrossDefault,
                             cross2 |-> CrossDefault,
                             last_tp |-> TP(candle)]]

\* KlingerVolumeOscillator::set
KVOSet(c, name, value) ==
    IF name = "ma1"
    THEN IF ~ParseMA(value).ok
         THEN [result |-> ParameterParse(name, value), cfg |-> c]
         ELSE [result |-> Ok, cfg |-> [c EXCEPT !.ma1 = ParseMA(value).value]]
    ELSE IF name = "ma2"
    THEN IF ~ParseMA(value).ok
         THEN [result |-> ParameterParse(name, value), cfg |-> c]
         ELSE [result |-> Ok, cfg |-> [c EXCEPT !.ma2 = ParseMA(value).value]]
    ELSE IF name = "signal"
    THEN IF ~ParseMA(value).ok
         THEN [result |-> ParameterParse(name, value), cfg |-> c]
         ELSE [result |-> Ok, cfg |-> [c EXCEPT !.signal = ParseMA(value).value]]
    ELSE [result |-> ParameterParse(name, value), cfg |-> c]

\* KlingerVolumeOscillator::size
KVOSize == <<2, 2>>

\* KVONext with the price delta taken the wrong way round
KVONextInvertedDelta(i, candle) ==
    LET tp == TP(candle)
        d == RSub(i.last_tp, tp)
        vol == RMul(Sign(d), Volume(candle))
        ma1 == MANext(i.ma1, vol)
        ma2 == MANext(i.ma2, vol)
        ko == RSub(ma1.value, ma2.value)
        ma3 == MANext(i.ma3, ko)
        s1 == CrossNext(i.cross1, ko, R(0))
        s2 == CrossNext(i.cross2, ko, ma3.value)
    IN  [inst |-> [i EXCEPT !.last_tp = tp, !.ma1 = ma1, !.ma2 = ma2, !.ma3 = ma3,
                            !.cross1 = s1.state, !.cross2 = s2.state],
         res |-> IndicatorResult(<<ko, ma3.value>>, <<s1.signal, s2.signal>>),
         fed |-> <<vol, vol, ko>>]

\* KVONext returning the signal of the first detector only
KVONextOneSignal(i, candle) ==
    LET tp == TP(candle)
        d == RSub(tp, i.last_tp)
        vol == RMul(Sign(d), Volume(candle))
        ma1 == MANext(i.ma1, vol)
        ma2 == MANext(i.ma2, vol)
        ko == RSub(ma1.value, ma2.value)
        ma3 == MANext(i.ma3, ko)
        s1 == CrossNext(i.cross1, ko, R(0))
        s2 == CrossNext(i.cross2, ko, ma3.value)
    IN  [inst |-> [i EXCEPT !.last_tp = tp, !.ma1 = ma1, !.ma2 = ma2, !.ma3 = ma3,
                            !.cross1 = s1.state, !.cross2 = s2.state],
         res |-> IndicatorResult(<<ko, ma3.value>>, <<s1.signal>>),
         fed |-> <<vol, vol, ko>>]

\* KVONext advancing the fast average twice on one candle
KVONextTwiceFast(i, candle) ==
    LET tp == TP(candle)
        d == RSub(tp, i.last_tp)
        vol == RMul(Sign(d), Volume(candle))
        ma1 == MANext(MANext(i.ma1, vol), vol)
        ma2 == MANext(i.ma2, vol)
        ko == RSub(ma1.value, ma2.value)
        ma3 == MANext(i.ma3, ko)
        s1 == CrossNext(i.cross1, ko, R(0))
        s2 == CrossNext(i.cross2, ko, ma3.value)
    IN  [inst |-> [i EXCEPT !.last_tp = tp, !.ma1 = ma1, !.ma2 = ma2, !.ma3 = ma3,
                            !.cross1 = s1.state, !.cross2 = s2.state],
         res |-> IndicatorResult(<<ko, ma3.value>>, <<s1.signal, s2.signal>>),
         fed |-> <<vol, vol, ko>>]

\* KVONext keeping the typical price it was initialized with
KVONextStaleTp(i, candle) ==
    LET tp == TP(candle)
        d == RSub(tp, i.last_tp)
        vol == RMul(Sign(d), Volume(candle))
        ma1 == MANext(i.ma1, vol)
        ma2 == MANext(i.ma2, vol)
        ko == RSub(ma1.value, ma2.value)
        ma3 == MANext(i.ma3, ko)
        s1 == CrossNext(i.cross1, ko, R(0))
        s2 == CrossNext(i.cross2, ko, ma3.value)
    IN  [inst |-> [i EXCEPT !.ma1 = ma1, !.ma2 = ma2, !.ma3 = ma3,
                            !.cross1 = s1.state, !.cross2 = s2.state],
         res |-> IndicatorResult(<<ko, ma3.value>>, <<s1.signal, s2.signal>>),
         fed |-> <<vol, vol, ko>>]

\* KVONext giving the second detector the signal line of the previous step
KVONextStaleLine(i, candle) ==
    LET tp == TP(candle)
        d == RSub(tp, i.last_tp)
        vol == RMul(Sign(d), Volume(candle))
        ma1 == MANext(i.ma1, vol)
        ma2 == MANext(i.ma2, vol)
        ko == RSub(ma1.value, ma2.value)
        ma3 == MANext(i.ma3, ko)
        s1 == CrossNext(i.cross1, ko, R(0))
        s2 == CrossNext(i.cross2, ko, i.ma3.value)
    IN  [inst |-> [i EXCEPT !.last_tp = tp, !.ma1 = ma1, !.ma2 = ma2, !.ma3 = ma3,
                            !.cross1 = s1.state, !.cross2 = s2.state],
         res |-> IndicatorResult(<<ko, ma3.value>>, <<s1.signal, s2.signal>>),
         fed |-> <<vol, vol, ko>>]

\* KlingerVolumeOscillatorInstance::next
KVONext(i, candle) ==
    LET tp == TP(candle)
        d == RSub(tp, i.last_tp)
        vol == RMul(Sign(d), Volume(candle))
        ma1 == MANext(i.ma1, vol)
        ma2 == MANext(i.ma2, vol)
        ko == RSub(ma1.value, ma2.value)
        ma3 == MANext(i.ma3, ko)
        s1 == CrossNext(i.cross1, ko, R(0))
        s2 == CrossNext(i.cross2, ko, ma3.value)
    IN  [inst |-> [i EXCEPT !.last_tp = tp, !.ma1 = ma1, !.ma2 = ma2, !.ma3 = ma3,
                            !.cross1 = s1.state, !.cross2 = s2.state],
         res |-> IndicatorResult(<<ko, ma3.value>>, <<s1.signal, s2.signal>>),
         fed |-> <<vol, vol, ko>>]

----------------------------------------------------------------------------
(* The caller: configures one indicator, initializes it, feeds it candles *)

\* the names the caller passes to set(): the declared fields of the indicator
\* and names that are no field of it
UnknownNames == {"bogus"}

FieldNames == (IF ind = ENVELOPES THEN EnvelopesFields ELSE KVOFields) \cup UnknownNames

Size == IF ind = ENVELOPES THEN EnvelopesSize ELSE KVOSize

Validate == IF ind = ENVELOPES THEN EnvelopesValidate(cfg) ELSE KVOValidate(cfg)

DetectorIdle ==
    /\ det = CrossDefault
    /\ series = <<>>
    /\ phase = "start"
    /\ sigs = <<>>

Init ==
    /\ ind \in {ENVELOPES, KVO}
    /\ cfg \in IF ind = ENVELOPES THEN EnvelopesConfigs ELSE KVOConfigs
    /\ inst = NoInstance
    /\ lastOp = <<"new">>
    /\ ret = NotCalled
    /\ hist = <<>>
    /\ fed = <<>>
    /\ DetectorIdle

EnvelopesSetStep ==
    /\ ind = ENVELOPES
    /\ inst = NoInstance
    /\ \E name \in FieldNames, value \in RawValues :
          \E r \in {EnvelopesSet(cfg, name, value)} :
              /\ cfg' = r.cfg
              /\ ret' = r.result
              /\ lastOp' = <<"set", name, value>>
    /\ UNCHANGED <<ind, inst, hist, fed>>
    /\ UNCHANGED detectorVars

KVOSetStep ==
    /\ ind = KVO
    /\ inst = NoInstance
    /\ \E name \in FieldNames, value \in RawValues :
          \E r \in {KVOSet(cfg, name, value)} :
              /\ cfg' = r.cfg
              /\ ret' = r.result
              /\ lastOp' = <<"set", name, value>>
    /\ UNCHANGED <<ind, inst, hist, fed>>
    /\ UNCHANGED detectorVars

EnvelopesInitFrom(candles) ==
    /\ ind = ENVELOPES
    /\ inst = NoInstance
    /\ \E candle \in candles :
          \E r \in {EnvelopesInit(cfg, candle)} :
              /\ inst' = r.inst
              /\ ret' = r.result
              /\ hist' = IF r.result = Ok THEN <<candle>> ELSE hist
              /\ lastOp' = <<"init", candle>>
    /\ UNCHANGED <<ind, cfg, fed>>
    /\ UNCHANGED detectorVars

EnvelopesInitStep == EnvelopesInitFrom(Candles)

KVOInitStep ==
    /\ ind = KVO
    /\ inst = NoInstance
    /\ \E candle \in Candles :
          \E r \in {KVOInit(cfg, candle)} :
              /\ inst' = r.inst
              /\ ret' = r.result
              /\ hist' = IF r.result = Ok THEN <<candle>> ELSE hist
              /\ lastOp' = <<"init", candle>>
    /\ UNCHANGED <<ind, cfg, fed>>
    /\ UNCHANGED detectorVars

EnvelopesNextFrom(candles) ==
    /\ ind = ENVELOPES
    /\ inst # NoInstance
    /\ Len(hist) <= MaxSteps
    /\ \E candle \in candles :
          \E r \in {EnvelopesNext(inst, candle)} :
              /\ inst' = r.inst
              /\ ret' = r.res
              /\ fed' = r.fed
              /\ hist' = Append(hist, candle)
              /\ lastOp' = <<"next", candle>>
    /\ UNCHANGED <<ind, cfg>>
    /\ UNCHANGED detectorVars

EnvelopesNextStep == EnvelopesNextFrom(Candles)

KVONextStep ==
    /\ ind = KVO
    /\ inst # NoInstance
    /\ Len(hist) <= MaxSteps
    /\ \E candle \in Candles :
          \E r \in {KVONext(inst, candle)} :
              /\ inst' = r.inst
              /\ ret' = r.res
              /\ fed' = r.fed
              /\ hist' = Append(hist, candle)
              /\ lastOp' = <<"next", candle>>
    /\ UNCHANGED <<ind, cfg>>
    /\ UNCHANGED detectorVars

Next ==
    \/ EnvelopesSetStep
    \/ KVOSetStep
    \/ EnvelopesInitStep
    \/ KVOInitStep
    \/ EnvelopesNextStep
    \/ KVONextStep

Spec == Init /\ [][Next]_vars

----------------------------------------------------------------------------
(* An Envelopes instance fed candles of any sign *)

InitSigned ==
    /\ ind = ENVELOPES
    /\ cfg \in EnvelopesConfigs
    /\ inst = NoInstance
    /\ lastOp = <<"new">>
    /\ ret = NotCalled
    /\ hist = <<>>
    /\ fed = <<>>
    /\ DetectorIdle

EnvelopesInitSigned == EnvelopesInitFrom(SignedCandles)

EnvelopesNextSigned == EnvelopesNextFrom(SignedCandles)

NextSigned == EnvelopesInitSigned \/ EnvelopesNextSigned

SpecSigned == InitSigned /\ [][NextSigned]_vars

----------------------------------------------------------------------------
(* A crossing detector on its own, fed a series a that rises, stays flat and *)
(* falls, against a constant b                                              *)

IndicatorIdle ==
    /\ ind = KVO
    /\ cfg = [ma1 |-> [kind |-> "EMA", period |-> 2],
              ma2 |-> [kind |-> "EMA", period |-> 3],
              signal |-> [kind |-> "EMA", period |-> 2]]
    /\ inst = NoInstance
    /\ lastOp = <<"new">>
    /\ ret = NotCalled
    /\ hist = <<>>
    /\ fed = <<>>

InitCross == IndicatorIdle /\ DetectorIdle

\* one call of Cross::next on the pair (a, b)
Observe(a, b) ==
    \E r \in {CrossNext(det, R(a), R(b))} :
        /\ det' = r.state
        /\ sigs' = Append(sigs, r.signal)
        /\ series' = Append(series, <<a, b>>)

LastA == series[Len(series)][1]
LevelB == series[1][2]

\* the first pair: a starts at or below the constant
CrossFirst ==
    /\ phase = "start"
    /\ \E b \in 1..(MaxLevel - 1) : \E a \in 0..b : Observe(a, b)
    /\ phase' = "rising"
    /\ UNCHANGED indicatorVars

CrossRise ==
    /\ phase = "rising"
    /\ Len(series) < MaxSeries
    /\ \E a \in (LastA + 1)..MaxLevel : Observe(a, LevelB)
    /\ UNCHANGED phase
    /\ UNCHANGED indicatorVars

CrossFlat ==
    /\ phase \in {"rising", "flat"}
    /\ Len(series) < MaxSeries
    /\ Observe(LastA, LevelB)
    /\ phase' = "flat"
    /\ UNCHANGED indicatorVars

CrossFall ==
    /\ phase \in {"rising", "flat", "falling"}
    /\ Len(series) < MaxSeries
    /\ \E a \in 0..(LastA - 1) : Observe(a, LevelB)
    /\ phase' = "falling"
    /\ UNCHANGED indicatorVars

NextCross == CrossFirst \/ CrossRise \/ CrossFlat \/ CrossFall

SpecCross == InitCross /\ [][NextCross]_vars

----------------------------------------------------------------------------
(* The crossing detector fed any series against a constant *)

CrossAnyFirst ==
    /\ phase = "start"
    /\ \E b \in 1..(MaxLevel - 1) : \E a \in 0..MaxLevel : Observe(a, b)
    /\ phase' = "any"
    /\ UNCHANGED indicatorVars

CrossAnyStep ==
    /\ phase = "any"
    /\ Len(series) < MaxSeries
    /\ \E a \in 0..MaxLevel : Observe(a, LevelB)
    /\ UNCHANGED phase
    /\ UNCHANGED indicatorVars

NextCrossAny == CrossAnyFirst \/ CrossAnyStep

SpecCrossAny == InitCross /\ [][NextCrossAny]_vars

----------------------------------------------------------------------------
(* Properties *)

Called(op) == lastOp[1] = op

LastCandle == hist[Len(hist)]
PrevCandle == hist[Len(hist) - 1]

DeclaredFields == IF ind = ENVELOPES THEN EnvelopesFields ELSE KVOFields

\* C1: validation gate. After init on a configuration, reached by any sequence
\* of set calls, for which validate() is false, init has returned
\* Err(WrongConfig) and there is no instance; when validate() is true, init has
\* returned Ok and the instance exists.
ValidationGate ==
    Called("init") =>
        IF Validate
        THEN ret = Ok /\ inst # NoInstance
        ELSE ret = WrongConfig /\ inst = NoInstance

ValidationGateWitness ==
    /\ Called("init")
    /\ ~Validate
    /\ ret = WrongConfig
    /\ inst = NoInstance

RECURSIVE MAFold(_, _)
MAFold(st, xs) == IF xs = <<>> THEN st ELSE MAFold(MANext(st, Head(xs)), Tail(xs))

\* the moving average of the configured source over all candles supplied so far
Centerline ==
    LET xs == [i \in 1..Len(hist) |-> Source(hist[i], cfg.source)]
    IN  MAFold(MAInit(cfg.ma, xs[1]).state, Tail(xs)).value

Closes == [i \in 1..Len(hist) |-> hist[i].close]

\* C4: envelope values. After every next of an Envelopes instance, with c the
\* moving average advanced by this candle, the values are c*(1+k), c*(1-k) and
\* source2 of this candle; with SMA(2), k = 0.1, Close, Close and closes
\* 100, 100, 80 they are 99, 81, 80 and the signal is full buy.
EnvelopeValues ==
    (ind = ENVELOPES /\ Called("next")) =>
        /\ ret.values = <<RMul(Centerline, RAdd(R(1), cfg.k)),
                          RMul(Centerline, RSub(R(1), cfg.k)),
                          Source(LastCandle, cfg.source2)>>
        /\ ( /\ cfg = [ma |-> [kind |-> "SMA", period |-> 2], k |-> Norm(1, 10),
                       source |-> "Close", source2 |-> "Close"]
             /\ Closes = <<100, 100, 80>> )
           => /\ Centerline = R(90)
              /\ ret.values = <<R(99), R(81), R(80)>>
              /\ ret.signals = <<BUY_ALL>>

EnvelopeValuesWitness ==
    /\ ind = ENVELOPES
    /\ Called("next")
    /\ cfg = [ma |-> [kind |-> "SMA", period |-> 2], k |-> Norm(1, 10),
              source |-> "Close", source2 |-> "Close"]
    /\ Closes = <<100, 100, 80>>
    /\ ret = IndicatorResult(<<R(99), R(81), R(80)>>, <<BUY_ALL>>)

\* C5: signed volume. After every next of a KlingerVolumeOscillator instance
\* the value passed to ma1 and to ma2 is +volume when the typical price of this
\* candle is above that of the previous candle, -volume when it is below, and 0
\* when the two are equal.
SignedVolume ==
    (ind = KVO /\ Called("next")) =>
        LET volume == Volume(LastCandle)
            expected == IF RGt(TP(LastCandle), TP(PrevCandle)) THEN volume
                        ELSE IF RLt(TP(LastCandle), TP(PrevCandle)) THEN RNeg(volume)
                        ELSE R(0)
        IN  fed[1] = expected /\ fed[2] = expected

\* rising, then falling, then an unchanged typical price with a different volume
SignedVolumeWitness ==
    /\ ind = KVO
    /\ Called("next")
    /\ hist = <<Candle2, Candle1, Candle2, Candle2>>
    /\ fed[1] = R(0)
    /\ fed[2] = R(0)

\* C6: family mismatch. A KlingerVolumeOscillator configuration whose ma1 and
\* ma2 are of different families fails validate(), whatever the periods and the
\* signal average, and init on it returns Err(WrongConfig).
FamilyMismatch ==
    (ind = KVO /\ ~IsSimilarTo(cfg.ma1, cfg.ma2)) =>
        /\ ~KVOValidate(cfg)
        /\ Called("init") => ret = WrongConfig

\* the families differ and every period condition holds
FamilyMismatchWitness ==
    /\ ind = KVO
    /\ Called("init")
    /\ ~IsSimilarTo(cfg.ma1, cfg.ma2)
    /\ MAPeriod(cfg.ma1) > 1
    /\ MAPeriod(cfg.ma1) < MAPeriod(cfg.ma2)
    /\ MAPeriod(cfg.signal) > 1
    /\ ret = WrongConfig

\* C7: period invariants. A KlingerVolumeOscillator configuration that passes
\* validate(), and the configuration of every instance, has its three periods
\* > 1 and ma1's period below ma2's; an Envelopes configuration that passes
\* validate() has its ma period > 1.
PeriodInvariants ==
    /\ (ind = KVO /\ (KVOValidate(cfg) \/ inst # NoInstance)) =>
          /\ MAPeriod(cfg.ma1) > 1
          /\ MAPeriod(cfg.ma2) > 1
          /\ MAPeriod(cfg.signal) > 1
          /\ MAPeriod(cfg.ma1) < MAPeriod(cfg.ma2)
    /\ (ind = ENVELOPES /\ (EnvelopesValidate(cfg) \/ inst # NoInstance)) =>
          MAPeriod(cfg.ma) > 1

PeriodInvariantsWitness ==
    /\ ind = KVO
    /\ KVOValidate(cfg)
    /\ Called("init")
    /\ inst # NoInstance

\* C8: unknown field. A set(name, value) whose name is no declared field of the
\* indicator returns Err(ParameterParse(name, value)).
UnknownField ==
    (Called("set") /\ lastOp[2] \notin DeclaredFields) =>
        ret = ParameterParse(lastOp[2], lastOp[3])

UnknownFieldWitness ==
    /\ lastOp = <<"set", "bogus", "0.1">>
    /\ ret = ParameterParse("bogus", "0.1")

\* C9: shape invariant. Every result of next has size().0 values and size().1
\* signals: 3 and 1 for Envelopes, 2 and 2 for KlingerVolumeOscillator.
ShapeInvariant ==
    Called("next") =>
        /\ Len(ret.values) = Size[1]
        /\ Len(ret.signals) = Size[2]
        /\ ind = ENVELOPES => (Len(ret.values) = 3 /\ Len(ret.signals) = 1)
        /\ ind = KVO => (Len(ret.values) = 2 /\ Len(ret.signals) = 2)

ShapeInvariantWitness ==
    /\ ind = KVO
    /\ Called("next")
    /\ Len(hist) = MaxSteps + 1
    /\ Len(ret.values) = 2
    /\ Len(ret.signals) = 2

(* The stand-alone detector *)

A(i) == series[i][1]

Count(signal) == Cardinality({i \in 1..Len(sigs) : sigs[i] = signal})

\* C2: crossing no-repeat. For a series a that rises, stays flat and falls
\* against a constant b, the detector returns buy exactly at the steps where a
\* comes to be above b from at or below it, sell exactly at the steps where a
\* comes to be below b from at or above it, each at most once, and no signal
\* on a flat step.
CrossingNoRepeat ==
    /\ Len(sigs) = Len(series)
    /\ \A i \in 1..Len(series) :
          /\ sigs[i] = BUY_ALL <=> (i > 1 /\ A(i) > LevelB /\ A(i - 1) <= LevelB)
          /\ sigs[i] = SELL_ALL <=> (i > 1 /\ A(i) < LevelB /\ A(i - 1) >= LevelB)
          /\ (i > 1 /\ A(i) = A(i - 1)) => sigs[i] = ACTION_NONE
    /\ Count(BUY_ALL) <= 1
    /\ Count(SELL_ALL) <= 1
    /\ (series # <<>> /\ \E i \in 1..Len(series) : A(i) > LevelB) => Count(BUY_ALL) = 1
    /\ (Count(BUY_ALL) = 1 /\ LastA < LevelB) => Count(SELL_ALL) = 1

\* a rose past b, stayed flat above it and fell back below it
CrossingNoRepeatWitness ==
    /\ phase = "falling"
    /\ Len(series) = MaxSeries
    /\ A(1) < LevelB
    /\ A(2) > LevelB
    /\ A(3) = A(2)
    /\ LastA < LevelB
    /\ Count(BUY_ALL) = 1
    /\ Count(SELL_ALL) = 1
    /\ sigs[3] = ACTION_NONE

----------------------------------------------------------------------------
(* Properties of the instances and of set() *)

\* IndicatorInstance::config
Config == inst.cfg

\* C11: the configuration of an instance is frozen and valid. Once init has
\* succeeded, and after any number of next calls, config() is the configuration
\* that was passed to init, field by field, it passes validate(), and for
\* Envelopes the factors are k_high = 1 + k and k_low = 1 - k.
ConfigFrozen ==
    inst # NoInstance =>
        /\ Config = cfg
        /\ \A f \in DeclaredFields : Config[f] = cfg[f]
        /\ IF ind = ENVELOPES THEN EnvelopesValidate(Config) ELSE KVOValidate(Config)
        /\ ind = ENVELOPES =>
              /\ inst.k_high = RAdd(R(1), cfg.k)
              /\ inst.k_low = RSub(R(1), cfg.k)

ConfigFrozenWitness ==
    /\ ind = ENVELOPES
    /\ Called("next")
    /\ Len(hist) = MaxSteps + 1
    /\ Config = cfg
    /\ inst.k_low = RSub(R(1), cfg.k)

\* C12 as stated: Envelopes validation forbids k >= 1. validate() is false,
\* and init returns Err(WrongConfig), for every Envelopes configuration whose
\* k is greater than or equal to 1.
KAtLeastOneForbidden ==
    (ind = ENVELOPES /\ ~RLt(cfg.k, R(1)) /\ Called("init")) =>
        /\ ~EnvelopesValidate(cfg)
        /\ ret = WrongConfig
        /\ inst = NoInstance

\* C12: what validate() forbids is k <= 0. validate() is false, and init
\* returns Err(WrongConfig), for every Envelopes configuration whose k is not
\* strictly positive; a configuration with k >= 1 and an ma period > 1 passes
\* validate() and init succeeds on it.
KNotPositiveForbidden ==
    ind = ENVELOPES =>
        /\ ~RGt(cfg.k, R(0)) =>
              /\ ~EnvelopesValidate(cfg)
              /\ inst = NoInstance
              /\ Called("init") => ret = WrongConfig
        /\ (~RLt(cfg.k, R(1)) /\ MAPeriod(cfg.ma) > 1) =>
              /\ EnvelopesValidate(cfg)
              /\ Called("init") => (ret = Ok /\ inst # NoInstance)

\* init has succeeded on a configuration with k = 1.5
KNotPositiveForbiddenWitness ==
    /\ ind = ENVELOPES
    /\ cfg.k = Norm(3, 2)
    /\ Called("init")
    /\ ret = Ok
    /\ inst # NoInstance

\* the signals of full strength and no signal: Action::from of -1, 0 and +1
FullSignals == {ActionFromI8(v) : v \in {-1, 0, 1}}

\* C13: signal range. Every signal returned by next, of either indicator, is
\* full sell (-1), none (0) or full buy (+1); no other strength is produced.
SignalRange ==
    Called("next") =>
        /\ \A n \in 1..Len(ret.signals) : ret.signals[n] \in FullSignals
        /\ FullSignals = {SELL_ALL, ACTION_NONE, BUY_ALL}

\* both signals of the volume oscillator fire on the same step
SignalRangeWitness ==
    /\ ind = KVO
    /\ Called("next")
    /\ ret.signals[1] \in {BUY_ALL, SELL_ALL}
    /\ ret.signals[2] \in {BUY_ALL, SELL_ALL}

Alternate ==
    \A i \in 1..Len(sigs) : \A j \in (i + 1)..Len(sigs) :
        (sigs[i] # ACTION_NONE /\ sigs[j] = sigs[i]) =>
            \E m \in (i + 1)..(j - 1) : sigs[m] \notin {ACTION_NONE, sigs[i]}

\* the most recent step before i on which a differed from b exists and had a
\* on the given side of b
CameFrom(i, side) ==
    \E j \in 1..(i - 1) :
        /\ Relation(R(A(j)), R(LevelB)) = side
        /\ \A m \in (j + 1)..(i - 1) : A(m) = LevelB

\* C15, as claimed: genuine sign reversal. The detector returns buy only at a
\* step with a > b whose most recent earlier step with a # b had a < b, sell
\* only at a step with a < b whose most recent earlier step with a # b had
\* a > b, so that buy and sell strictly alternate along any series.
GenuineReversal ==
    /\ \A i \in 1..Len(sigs) :
          /\ sigs[i] = BUY_ALL => (A(i) > LevelB /\ CameFrom(i, "below"))
          /\ sigs[i] = SELL_ALL => (A(i) < LevelB /\ CameFrom(i, "above"))
    /\ Alternate

\* C15: reversal against the previous step. The detector returns buy exactly
\* at a step after the first with a > b whose previous step had a <= b, sell
\* exactly at a step after the first with a < b whose previous step had
\* a >= b; it never returns the same signal on two consecutive steps, between
\* two equal signals the series has touched or crossed b, and along a series
\* that never equals b buy and sell strictly alternate.
ReversalFromPrevious ==
    /\ Len(sigs) = Len(series)
    /\ \A i \in 1..Len(sigs) :
          /\ sigs[i] = BUY_ALL <=> (i > 1 /\ A(i) > LevelB /\ A(i - 1) <= LevelB)
          /\ sigs[i] = SELL_ALL <=> (i > 1 /\ A(i) < LevelB /\ A(i - 1) >= LevelB)
          /\ (i > 1 /\ sigs[i] # ACTION_NONE) => sigs[i - 1] # sigs[i]
    /\ \A i \in 1..Len(sigs) : \A j \in (i + 1)..Len(sigs) :
          (sigs[i] = BUY_ALL /\ sigs[j] = BUY_ALL) =>
              \E m \in (i + 1)..(j - 1) : A(m) <= LevelB
    /\ \A i \in 1..Len(sigs) : \A j \in (i + 1)..Len(sigs) :
          (sigs[i] = SELL_ALL /\ sigs[j] = SELL_ALL) =>
              \E m \in (i + 1)..(j - 1) : A(m) >= LevelB
    /\ (\A i \in 1..Len(series) : A(i) # LevelB) => Alternate

\* a rose past b, came back to b without going below it and rose past it
\* again: two buy signals and no sell signal
ReversalFromPreviousWitness ==
    /\ Len(series) = 5
    /\ A(1) < LevelB
    /\ A(2) > LevelB
    /\ A(3) = LevelB
    /\ A(4) > LevelB
    /\ A(5) > LevelB
    /\ sigs = <<ACTION_NONE, BUY_ALL, ACTION_NONE, BUY_ALL, ACTION_NONE>>

\* C16: no signal from the uninitialized state. A volume oscillator instance
\* fresh from init holds two detectors that have seen no pair; its first next,
\* whatever the candle, returns no signal on either signal and leaves in each
\* detector the relation of the pair it was given.
NoSignalFromDefault ==
    /\ (ind = KVO /\ inst # NoInstance /\ Len(hist) = 1) =>
          /\ inst.cross1 = CrossDefault
          /\ inst.cross2 = CrossDefault
    /\ (ind = KVO /\ Called("next") /\ Len(hist) = 2) =>
          /\ ret.signals = <<ACTION_NONE, ACTION_NONE>>
          /\ inst.cross1 = Relation(ret.values[1], R(0))
          /\ inst.cross2 = Relation(ret.values[1], ret.values[2])

\* the first next finds the oscillator above zero and above its signal line
NoSignalFromDefaultWitness ==
    /\ ind = KVO
    /\ Called("next")
    /\ Len(hist) = 2
    /\ RGt(ret.values[1], R(0))
    /\ RGt(ret.values[1], ret.values[2])
    /\ inst.cross1 = "above"
    /\ inst.cross2 = "above"
    /\ ret.signals = <<ACTION_NONE, ACTION_NONE>>

\* the number of calls of next since init
Calls == Len(hist) - 1

\* the signed volume of each call of next, from the candles supplied
Vols ==
    [n \in 1..Calls |->
        RMul(Sign(RSub(TP(hist[n + 1]), TP(hist[n]))), Volume(hist[n + 1]))]

\* a moving average of the configuration, started at 0 and advanced once per
\* element of xs
Advanced(ma, xs) == MAFold(MAInit(ma, R(0)).state, xs)

\* the values of a moving average after each of its advances over xs
RECURSIVE MAScan(_, _)
MAScan(st, xs) ==
    IF xs = <<>> THEN <<>>
    ELSE LET nx == MANext(st, Head(xs))
         IN  <<nx.value>> \o MAScan(nx, Tail(xs))

Values(ma, xs) == MAScan(MAInit(ma, R(0)).state, xs)

\* the oscillator of each call: the averages advanced n times on the first n
\* signed volumes
KosOf(vols) ==
    LET fast == Values(Config.ma1, vols)
        slow == Values(Config.ma2, vols)
    IN  [n \in 1..Len(vols) |-> RSub(fast[n], slow[n])]

Kos == KosOf(Vols)

\* the signal line of each call: the third average advanced n times
LinesOf(kos) == Values(Config.signal, kos)

Lines == LinesOf(Kos)

RECURSIVE CrossFold(_, _)
CrossFold(st, pairs) ==
    IF pairs = <<>> THEN st
    ELSE CrossFold(CrossNext(st, Head(pairs)[1], Head(pairs)[2]).state, Tail(pairs))

\* C17: lock-step advance. After n calls of next following init every average
\* of the instance (one for Envelopes; ma1, ma2 and ma3 for the volume
\* oscillator) is its initial state advanced exactly n times, once per candle
\* in the order supplied, both detectors have been given exactly n pairs, and
\* the last call has returned one result computed from the n-th advance.
LockStep ==
    /\ (ind = ENVELOPES /\ inst # NoInstance) =>
          LET xs == [i \in 1..Len(hist) |-> Source(hist[i], Config.source)]
          IN  /\ inst.ma = MAFold(MAInit(Config.ma, xs[1]).state, Tail(xs))
              /\ Called("next") => fed = <<xs[Len(xs)]>>
    /\ (ind = KVO /\ inst # NoInstance) =>
          \A vols \in {SubSeq(Vols, 1, Calls)} :
          \A kos \in {SubSeq(KosOf(vols), 1, Calls)} :
          \A lines \in {SubSeq(LinesOf(kos), 1, Calls)} :
              /\ inst.ma1 = Advanced(Config.ma1, vols)
              /\ inst.ma2 = Advanced(Config.ma2, vols)
              /\ inst.ma3 = Advanced(Config.signal, kos)
              /\ inst.cross1 = CrossFold(CrossDefault, [n \in 1..Calls |-> <<kos[n], R(0)>>])
              /\ inst.cross2 = CrossFold(CrossDefault, [n \in 1..Calls |-> <<kos[n], lines[n]>>])
              /\ Called("next") =>
                    /\ fed = <<vols[Calls], vols[Calls], kos[Calls]>>
                    /\ ret.values = <<kos[Calls], lines[Calls]>>
    /\ inst # NoInstance => (Called("next") <=> Calls >= 1)
    /\ Called("next") => DOMAIN ret = {"values", "signals"}

\* three calls of next on a volume oscillator, with signed volumes that differ
LockStepWitness ==
    /\ ind = KVO
    /\ Called("next")
    /\ Calls = 3
    /\ Vols[1] # Vols[2]
    /\ Vols[3] # R(0)
    /\ Kos[2] # Kos[3]
    /\ inst.ma1.value # inst.ma2.value

\* C18: previous-candle memory of the volume oscillator. After init and after
\* every next the remembered typical price is that of the candle supplied
\* last; the volume fed to the averages by a next is signed by the change of
\* typical price from the candle immediately before, and is 0 when the first
\* next receives the candle init received.
PreviousCandleMemory ==
    (ind = KVO /\ inst # NoInstance) =>
        /\ inst.last_tp = TP(LastCandle)
        /\ Called("next") =>
              /\ fed[1] = RMul(Sign(RSub(TP(LastCandle), TP(PrevCandle))), Volume(LastCandle))
              /\ (Len(hist) = 2 /\ hist[2] = hist[1]) => fed[1] = R(0)

\* the candle of init comes again two calls later with another one between:
\* the delta is taken against the candle between, and the volume is signed
PreviousCandleMemoryWitness ==
    /\ ind = KVO
    /\ Called("next")
    /\ Len(hist) = 3
    /\ hist[3] = hist[1]
    /\ hist[2] # hist[1]
    /\ Volume(LastCandle) # R(0)
    /\ TP(hist[2]) # TP(hist[1])
    /\ fed[1] # R(0)

\* C19: order of steps inside next of the volume oscillator. On every next the
\* oscillator ko is the difference of the two averages as advanced by this
\* candle, the signal-line average is advanced with this ko, the first detector
\* is advanced on (ko, 0) and the second on (ko, signal line of this step);
\* the values returned are that ko and that signal line, and the first signal
\* is a function of the first detector's state and ko alone.
OscillatorStepOrder ==
    [][(ind = KVO /\ inst # NoInstance /\ lastOp'[1] = "next") =>
          LET ko == ret'.values[1]
              line == ret'.values[2]
              first == CrossNext(inst.cross1, ko, R(0))
              second == CrossNext(inst.cross2, ko, line)
          IN  /\ inst'.ma1 = MANext(inst.ma1, fed'[1])
              /\ inst'.ma2 = MANext(inst.ma2, fed'[2])
              /\ ko = RSub(inst'.ma1.value, inst'.ma2.value)
              /\ fed'[3] = ko
              /\ inst'.ma3 = MANext(inst.ma3, ko)
              /\ line = inst'.ma3.value
              /\ ret'.signals = <<first.signal, second.signal>>
              /\ inst'.cross1 = first.state
              /\ inst'.cross2 = second.state
              /\ inst'.cross1 = Relation(ko, R(0))]_vars

\* the oscillator crosses its signal line of this step without crossing zero
OscillatorStepOrderWitness ==
    /\ ind = KVO
    /\ Called("next")
    /\ Calls >= 2
    /\ ret.signals[1] = ACTION_NONE
    /\ ret.signals[2] # ACTION_NONE
    /\ ret.values[2] # R(0)
    /\ ret.values[1] # ret.values[2]

\* the raw value parsed as the type of the named field
ParsedAs(name, value) ==
    IF name = "k" THEN ParseValue(value)
    ELSE IF name \in {"source", "source2"} THEN ParseSource(value)
    ELSE ParseMA(value)

\* C20: failed set leaves the configuration unchanged. A set(name, value), on
\* either indicator, fails exactly when the name is no declared field or the
\* raw value does not parse as that field's type; the error is then
\* ParameterParse(name, value) and every field keeps its value. A set that
\* succeeds stores the parsed value in the named field and changes no other.
FailedSetKeepsConfig ==
    [][lastOp'[1] = "set" =>
          LET name == lastOp'[2]
              value == lastOp'[3]
              fails == name \notin DeclaredFields \/ ~ParsedAs(name, value).ok
          IN  /\ fails =>
                    /\ ret' = ParameterParse(name, value)
                    /\ cfg' = cfg
              /\ ~fails =>
                    /\ ret' = Ok
                    /\ cfg'[name] = ParsedAs(name, value).value
                    /\ \A f \in DOMAIN cfg \ {name} : cfg'[f] = cfg[f]
              /\ DOMAIN cfg' = DOMAIN cfg]_vars

\* a raw value that is no number is refused for k, and k keeps the value 1.5
FailedSetKeepsConfigWitness ==
    /\ ind = ENVELOPES
    /\ lastOp = <<"set", "k", "zzz">>
    /\ ret = ParameterParse("k", "zzz")
    /\ cfg.k = Norm(3, 2)

====
